---- MODULE Spec2Model ----
(***************************************************************************)
(* Listing bot (src/bot.js, the variant of lines 454-730): startup,        *)
(* the interval timer and the monitorListings cycles it launches.          *)
(*                                                                         *)
(* Every `await` of the code is a position (pc) of a cycle; the code       *)
(* between two awaits runs to completion on the event loop and is one      *)
(* action.  The indexer, the chat channel and their failures are the       *)
(* environment: each request is answered nondeterministically.             *)
(***************************************************************************)
EXTENDS Integers, Sequences, FiniteSets, TLC

VARIABLES
    scn,                \* which indexer contents this run talks to
    boot,               \* position of the client.once('ready') handler
    stakeIdx,           \* index into STAKE_KEYS of the lookup in flight
    monitoredAddresses, \* let monitoredAddresses = []
    processedTxs,       \* let processedTxs = new Set()
    ticks,              \* number of times the interval timer has fired
    cyc,                \* the monitorListings invocations, by slot
    notifiedBy,         \* history: <<tx hash, tick>> pairs that published
    utxoFails,          \* history: number of UTXO requests that failed
    timers,             \* history: number of calls of setInterval
    lookedUp,           \* history: indexes of the stake keys whose lookup succeeded
    img,                \* the image of one asset record being worked out
    txl                 \* one transaction on its way from the list to the matching

vars == <<scn, boot, stakeIdx, monitoredAddresses, processedTxs, ticks, cyc,
          notifiedBy, utxoFails, timers, lookedUp, img, txl>>

\* the variables of the running program
mainVars ==
    <<scn, boot, stakeIdx, monitoredAddresses, processedTxs, ticks, cyc, notifiedBy,
      utxoFails, timers, lookedUp>>

---------------------------------------------------------------------------
(* Program constants *)

TX_FETCH_LIMIT == 100
MAX_PAGES == 5
POLICY_LEN == 56

EXTRA_MONITORED_ADDRESS ==
    "addr1x8rjw3pawl0kelu4mj3c8x20fsczf5pl744s9mxz9v8n7efvjel5h55fgjcxgchp830r7h2l5msrlpt8262r3nvr8ekstg4qrx"

(* Bounds of the model *)

MaxTicks == 2       \* timer firings explored
LongHistory == 600  \* records in the long address history (more than 5 pages)
ShortTail == 50     \* records on the last, partial page of the other history
MaxUtxoFails == 1   \* UTXO requests the indexer fails in one run

\* Slots for monitorListings invocations that are suspended at the same time.
CycleIds == 1..2

---------------------------------------------------------------------------
(* Strings are sequences of one-character strings, so that slice() is real. *)

Min(S) == CHOOSE x \in S : \A y \in S : x <= y

\* String.prototype.slice(0, n)
Slice0(s, n) == SubSeq(s, 1, IF Len(s) < n THEN Len(s) ELSE n)

Rep(ch, n) == [i \in 1..n |-> ch]

Lovelace == <<"l", "o", "v", "e", "l", "a", "c", "e">>

\* A watched policy, one that differs from it in the last character only,
\* and an unrelated one.
PolicyW == Rep("a", POLICY_LEN)
PolicyNear == Rep("a", POLICY_LEN - 1) \o <<"c">>
PolicyN == Rep("c", POLICY_LEN)

\* process.env.POLICY_IDS, split, trimmed, empty entries removed
POLICY_IDS == <<PolicyW>>

\* process.env.STAKE_KEYS, likewise
STAKE_KEYS == <<"stake1">>

U1 == PolicyW \o <<"0", "1">>
U2 == PolicyW \o <<"0", "2">>
N1 == PolicyN \o <<"0", "1">>
N2 == PolicyNear \o <<"0", "1">>
\* a unit whose text is the watched policy followed by nothing
U0 == PolicyW

Includes(seq, x) == \E i \in 1..Len(seq) : seq[i] = x

---------------------------------------------------------------------------
(* The environment: what the indexer holds.                                *)

AddrA == "addr1_of_stake1"
AddrOther == "addr1_elsewhere"

Scenarios == {"long", "rich", "dup"}

\* GET /accounts/{stakeKey}/addresses, when it succeeds
StakeAddresses(stakeKey) ==
    <<[address |-> AddrA], [address |-> AddrA]>>

\* The transaction history of an address, newest first: records
\* { tx_hash, block_time }.
History(s, address) ==
    IF s = "long"
    THEN IF address = AddrA
         THEN [i \in 1..LongHistory |->
                 [tx_hash |-> "t3", block_time |-> 1 + LongHistory - i]]
         ELSE IF address = EXTRA_MONITORED_ADDRESS
         THEN [i \in 1..(TX_FETCH_LIMIT + ShortTail) |->
                 [tx_hash |-> "t3", block_time |-> 1 + TX_FETCH_LIMIT + ShortTail - i]]
         ELSE <<>>
    ELSE IF s = "rich"
    THEN IF address = AddrA
         THEN <<[tx_hash |-> "t1", block_time |-> 30]>>
         ELSE IF address = EXTRA_MONITORED_ADDRESS
         THEN <<[tx_hash |-> "t1", block_time |-> 30],
                [tx_hash |-> "t3", block_time |-> 10]>>
         ELSE <<>>
    ELSE IF address = AddrA
         THEN <<[tx_hash |-> "t2", block_time |-> 0]>>
         ELSE <<>>

\* GET /addresses/{address}/transactions?count=100&page={page}&order=desc
PageData(s, address, page) ==
    LET h == History(s, address)
        lo == (page - 1) * TX_FETCH_LIMIT + 1
        hi == IF page * TX_FETCH_LIMIT < Len(h) THEN page * TX_FETCH_LIMIT ELSE Len(h)
    IN  IF lo > hi THEN <<>> ELSE SubSeq(h, lo, hi)

\* GET /txs/{hash}/utxos: { outputs: [{ address, amount: [{ unit }] }], block_time }
UtxoData(hash) ==
    IF hash = "t1" THEN
        [block_time |-> 30,
         outputs |-> <<
            [address |-> AddrA,
             amount |-> <<[unit |-> Lovelace], [unit |-> U1], [unit |-> N1],
                          [unit |-> N2]>>],
            [address |-> AddrOther, amount |-> <<[unit |-> U0], [unit |-> N1]>>],
            [address |-> EXTRA_MONITORED_ADDRESS,
             amount |-> <<[unit |-> Lovelace], [unit |-> U2]>>],
            [address |-> AddrA, amount |-> <<[unit |-> U2]>>] >>]
    ELSE IF hash = "t2" THEN
        [block_time |-> 0,
         outputs |-> <<
            [address |-> AddrA, amount |-> <<[unit |-> U1]>>],
            [address |-> AddrA, amount |-> <<[unit |-> Lovelace], [unit |-> U1]>>] >>]
    ELSE
        [block_time |-> 0,
         outputs |-> <<
            [address |-> AddrOther, amount |-> <<[unit |-> U1]>>],
            [address |-> AddrA, amount |-> <<[unit |-> Lovelace], [unit |-> N1]>>],
            [address |-> EXTRA_MONITORED_ADDRESS,
             amount |-> <<[unit |-> Lovelace], [unit |-> N2]>>] >>]

\* GET /txs/{hash}: { block_time }
TxData(hash) == [block_time |-> IF hash = "t2" THEN 25 ELSE 15]

\* GET /assets/{unit}
AssetData(unit) == [isNull |-> FALSE, asset |-> unit]

\* the `null` a failed asset fetch returns
NullAsset == [isNull |-> TRUE, asset |-> <<>>]

---------------------------------------------------------------------------
(* Pure parts of monitorListings.                                          *)

\* Variant: the policy test is missing.
RECURSIVE MatchAmountAnyPolicy(_, _)
MatchAmountAnyPolicy(amount, k) ==
    IF k > Len(amount) THEN <<>>
    ELSE IF amount[k].unit = Lovelace THEN MatchAmountAnyPolicy(amount, k + 1)
         ELSE <<amount[k].unit>> \o MatchAmountAnyPolicy(amount, k + 1)

\* for (const asset of output.amount) { ... matchingAssets.push(asset.unit) }
RECURSIVE MatchAmount(_, _)
MatchAmount(amount, k) ==
    IF k > Len(amount) THEN <<>>
    ELSE LET unit == amount[k].unit
             policyId == Slice0(unit, POLICY_LEN)
         IN  IF unit = Lovelace THEN MatchAmount(amount, k + 1)
             ELSE IF Includes(POLICY_IDS, policyId)
                  THEN <<unit>> \o MatchAmount(amount, k + 1)
                  ELSE MatchAmount(amount, k + 1)

RECURSIVE MatchOutputs(_, _, _)

\* Variant: the address test is missing.
RECURSIVE MatchOutputsAnyAddress(_, _, _)
MatchOutputsAnyAddress(outputs, address, j) ==
    IF j > Len(outputs) THEN <<>>
    ELSE MatchAmount(outputs[j].amount, 1) \o MatchOutputsAnyAddress(outputs, address, j + 1)

\* for (const output of utxoRes.data.outputs) { if (output.address !== address) continue; ... }
MatchOutputs(outputs, address, j) ==
    IF j > Len(outputs) THEN <<>>
    ELSE IF outputs[j].address # address
         THEN MatchOutputs(outputs, address, j + 1)
         ELSE MatchAmount(outputs[j].amount, 1) \o MatchOutputs(outputs, address, j + 1)

\* Variant: filter that gives up on the whole list when one entry is null.
FilterAllOrNothing(details) ==
    IF \E i \in 1..Len(details) : details[i].isNull THEN <<>> ELSE details

\* assetDetails.filter(Boolean)
FilterBoolean(details) == SelectSeq(details, LAMBDA d : ~d.isNull)

\* [...new Set(list)]: first occurrences, in order
RECURSIVE Dedup(_)
Dedup(list) ==
    IF list = <<>> THEN <<>>
    ELSE LET init == Dedup(SubSeq(list, 1, Len(list) - 1))
             last == list[Len(list)]
         IN  IF Includes(init, last) THEN init ELSE Append(init, last)

\* Variant: a unit is listed once per transaction.
MatchingAssetsDistinct(utxo, address) == Dedup(MatchOutputs(utxo.outputs, address, 1))

\* const matchingAssets = []; filled by the loop over utxoRes.data.outputs
MatchingAssets(utxo, address) == MatchOutputs(utxo.outputs, address, 1)

\* Variant: the hash is not recorded.
MarkNothing(set, hash) == set

\* processedTxs.add(tx.tx_hash)
MarkProcessed(set, hash) == set \cup {hash}

---------------------------------------------------------------------------
(* The local state of one monitorListings invocation.                      *)

NoUtxo == [block_time |-> 0, outputs |-> <<>>]

Idle ==
    [pc |-> "idle",
     id |-> 0,              \* which timer firing started it
     ai |-> 0,              \* index of `address` in monitoredAddresses
     page |-> 0,            \* let page
     req |-> 0,             \* page number in the URL of the last page request
     allTxs |-> <<>>,       \* let allTxs
     pagesGot |-> <<>>,     \* history: pages whose records were appended
     ti |-> 0,              \* index of `tx` in allTxs
     utxo |-> NoUtxo,       \* utxoRes.data
     blockTime |-> 0,       \* let blockTime (0: null / undefined)
     matchingAssets |-> <<>>,
     fetch |-> <<>>,        \* per matching unit: "sleep", "req", "done"
     assetDetails |-> <<>>, \* what each mapped promise resolved to
     pub |-> <<>>,          \* assetDetails.filter(Boolean)
     pi |-> 0,              \* index of `data` in pub
     sent |-> <<>>,         \* history: publish attempts for the current tx
     settled |-> <<>>,      \* history: the mapped promises in the order they settled
     failed |-> {}]         \* history: hashes whose UTXO request failed in this cycle

\* for (let page = 1; ...) with a fresh allTxs, up to the first axios.get
StartAddress(s, ai) ==
    [Idle EXCEPT !.pc = "page_req", !.id = s.id, !.ai = ai, !.page = 1, !.req = 1,
                 !.failed = s.failed]

\* Variant: the loop over the addresses ends with its first iteration.
NextAddressNone(s, addrs) == Idle

\* the next iteration of `for (const address of monitoredAddresses)`
NextAddress(s, addrs) ==
    IF s.ai < Len(addrs) THEN StartAddress(s, s.ai + 1) ELSE Idle

\* Variant: the loop does not consult processedTxs.
NextTxAll(s, procd, from, addrs) ==
    IF from > Len(s.allTxs) THEN NextAddress(s, addrs)
    ELSE [s EXCEPT !.pc = "utxo_req", !.ti = from,
                   !.blockTime = s.allTxs[from].block_time,
                   !.utxo = NoUtxo, !.matchingAssets = <<>>, !.fetch = <<>>,
                   !.assetDetails = <<>>, !.pub = <<>>, !.pi = 0, !.sent = <<>>,
                   !.settled = <<>>]

\* for (const tx of allTxs) from index `from`: skip what processedTxs has,
\* issue the UTXO request of the first transaction it does not have.
NextTx(s, procd, from, addrs) ==
    LET todo == {i \in from..Len(s.allTxs) : s.allTxs[i].tx_hash \notin procd}
    IN  IF todo = {} THEN NextAddress(s, addrs)
        ELSE [s EXCEPT !.pc = "utxo_req", !.ti = Min(todo),
                       !.blockTime = s.allTxs[Min(todo)].block_time,
                       !.utxo = NoUtxo, !.matchingAssets = <<>>, !.fetch = <<>>,
                       !.assetDetails = <<>>, !.pub = <<>>, !.pi = 0, !.sent = <<>>,
                       !.settled = <<>>]

\* NextTx on the value of `s`, worked out once
AdvanceTx(s, procd, from, addrs) ==
    CHOOSE n \in {NextTx(x, procd, from, addrs) : x \in {s}} : TRUE

\* Variant: the loop test is off by one.
LoopPageOneMore(s, page, procd, addrs) ==
    LET p == page + 1
    IN  IF p <= MAX_PAGES + 1
        THEN [s EXCEPT !.pc = "page_req", !.page = p, !.req = p]
        ELSE AdvanceTx([s EXCEPT !.page = p], procd, 1, addrs)

\* page++ ; page <= MAX_PAGES ? next request : leave the loop
LoopPage(s, page, procd, addrs) ==
    LET p == page + 1
    IN  IF p <= MAX_PAGES
        THEN [s EXCEPT !.pc = "page_req", !.page = p, !.req = p]
        ELSE AdvanceTx([s EXCEPT !.page = p], procd, 1, addrs)

\* allTxs.push(...res.data); if (res.data.length < TX_FETCH_LIMIT) break; await sleep(300)
AfterPageOk(s, data, procd, addrs) ==
    LET s1 == [s EXCEPT !.allTxs = s.allTxs \o data,
                        !.pagesGot = Append(s.pagesGot, s.req)]
    IN  IF Len(data) < TX_FETCH_LIMIT
        THEN AdvanceTx(s1, procd, 1, addrs)
        ELSE [s1 EXCEPT !.pc = "page_sleep"]

\* Variant: the retry forgets page--.
AfterRetrySleepNoDecrement(s, procd, addrs) == LoopPage(s, s.page, procd, addrs)

\* after sleep(10000): page-- ; then the loop's page++
AfterRetrySleep(s, procd, addrs) == LoopPage(s, s.page - 1, procd, addrs)

\* Variant: the error is logged and the loop goes on with the next page.
AfterPageErrorContinue(s, procd, addrs) == LoopPage(s, s.page, procd, addrs)

\* } else break;
AfterPageError(s, procd, addrs) == AdvanceTx(s, procd, 1, addrs)

\* A step that may end the iteration of a transaction yields the local
\* state and the contents of processedTxs it leaves.
Step(s, procd) == [local |-> s, processed |-> procd]

\* catch (err) { ...; continue; } of the UTXO request
AfterUtxoFail(s, procd, addrs) ==
    LET s1 == [s EXCEPT !.failed = s.failed \cup {s.allTxs[s.ti].tx_hash}]
    IN  Step(AdvanceTx(s1, procd, s.ti + 1, addrs), procd)

\* the publish loop is over (or there was nothing to publish):
\* processedTxs.add(tx.tx_hash), then the next transaction
FinishTx(s, procd, addrs) ==
    LET after == MarkProcessed(procd, s.allTxs[s.ti].tx_hash)
    IN  Step(AdvanceTx(s, after, s.ti + 1, addrs), after)

\* the body of `for (const data of assetDetails.filter(Boolean))` up to
\* client.channels.fetch, or the end of that loop
PublishFrom(s, k, procd, addrs) ==
    IF k <= Len(s.pub)
    THEN Step([s EXCEPT !.pc = "chan_fetch", !.pi = k], procd)
    ELSE FinishTx(s, procd, addrs)

\* Promise.all resolved
AfterJoin(s, procd, addrs) ==
    PublishFrom([s EXCEPT !.pub = FilterBoolean(s.assetDetails)], 1, procd, addrs)

\* from the block time to the fan-out of the asset requests
Detect(s, blockTime, address, procd, addrs) ==
    LET m == MatchingAssets(s.utxo, address)
        s1 == [s EXCEPT !.blockTime = blockTime, !.matchingAssets = m]
    IN  IF Len(m) > 0
        THEN Step([s1 EXCEPT !.pc = "assets",
                             !.fetch = [i \in 1..Len(m) |-> "sleep"],
                             !.assetDetails = [i \in 1..Len(m) |-> NullAsset]],
                  procd)
        ELSE FinishTx(s1, procd, addrs)

\* utxoRes arrived: blockTime = utxoRes.data.block_time || await getTransactionBlockTime()
AfterUtxoOk(s, data, address, procd, addrs) ==
    LET s1 == [s EXCEPT !.utxo = data]
    IN  IF data.block_time # 0
        THEN Detect(s1, data.block_time, address, procd, addrs)
        ELSE Step([s1 EXCEPT !.pc = "time_req"], procd)

\* Variant: the publish loop starts when the first mapped promise settles.
AfterAssetFirst(s, i, result, procd, addrs) ==
    AfterJoin([s EXCEPT !.fetch[i] = "done", !.assetDetails[i] = result,
                        !.settled = Append(s.settled, i)],
              procd, addrs)

\* one mapped promise settled with `result`; the last one resolves Promise.all
AfterAsset(s, i, result, procd, addrs) ==
    LET s1 == [s EXCEPT !.fetch[i] = "done", !.assetDetails[i] = result,
                        !.settled = Append(s.settled, i)]
    IN  IF \A j \in 1..Len(s1.fetch) : s1.fetch[j] = "done"
        THEN AfterJoin(s1, procd, addrs)
        ELSE Step(s1, procd)

\* Variant: a failed publish leaves the loop over the records.
AfterPublishAbort(s, ok, procd, addrs) ==
    LET s1 == [s EXCEPT !.sent = Append(s.sent, [asset |-> s.pub[s.pi].asset, ok |-> ok])]
    IN  IF ok THEN PublishFrom(s1, s.pi + 1, procd, addrs)
        ELSE FinishTx(s1, procd, addrs)

\* the publish try/catch of one record is over (sent, or failed and logged)
AfterPublish(s, ok, procd, addrs) ==
    PublishFrom([s EXCEPT !.sent = Append(s.sent, [asset |-> s.pub[s.pi].asset, ok |-> ok])],
                s.pi + 1, procd, addrs)

---------------------------------------------------------------------------
(* One transaction from the list to the matching, in the variant with the  *)
(* epoch filter (lines 112-130) and in the variants without it.            *)

CARDANO_GENESIS_TIME == 1506203091
EPOCH_DURATION == 432000

\* a JavaScript number: NaN, or the integer n
NaN == [nan |-> TRUE, n |-> 0]
Num(n) == [nan |-> FALSE, n |-> n]

\* a < n, which is false when a is NaN
LessThan(a, n) == ~a.nan /\ a.n < n

\* getEpoch(blockTime); block time 0 stands for an absent one (undefined, null)
GetEpoch(blockTime) ==
    IF blockTime = 0 THEN NaN
    ELSE Num((blockTime - CARDANO_GENESIS_TIME) \div EPOCH_DURATION)

TxlOff ==
    [pc |-> "off",
     variant |-> "none",
     tx |-> [tx_hash |-> "t0", block_time |-> 0],  \* the record of the list
     has |-> FALSE,         \* processedTxs.has(tx.tx_hash)
     utxoTime |-> 0,        \* block_time of the answer to /txs/{hash}/utxos
     lookupTime |-> 0,      \* block_time of the answer to /txs/{hash}
     blockTime |-> 0,       \* let blockTime
     lookups |-> 0,         \* history: calls of getTransactionBlockTime
     why |-> "none"]        \* history: what made the loop `continue`

\* const finalEpoch = getEpoch(blockTime); if (finalEpoch < 573) continue;
\* (a comment in the later variants), then the matching
FinalEpoch(s, blockTime) ==
    IF s.variant = "epoch573" /\ LessThan(GetEpoch(blockTime), 573)
    THEN [s EXCEPT !.pc = "skipped", !.blockTime = blockTime, !.why = "finalEpoch"]
    ELSE [s EXCEPT !.pc = "matching", !.blockTime = blockTime]

\* if (processedTxs.has(tx.tx_hash) || epoch < 573) continue;  resp.
\* if (processedTxs.has(tx.tx_hash)) continue;  then let blockTime = tx.block_time
TakeUp(s) ==
    IF s.has THEN [s EXCEPT !.pc = "skipped", !.why = "processed"]
    ELSE IF s.variant = "epoch573" /\ LessThan(GetEpoch(s.tx.block_time), 573)
    THEN [s EXCEPT !.pc = "skipped", !.why = "epoch"]
    ELSE [s EXCEPT !.pc = "utxo_req", !.blockTime = s.tx.block_time]

\* blockTime = utxoRes.data.block_time || await getTransactionBlockTime(tx.tx_hash)
UtxoArrived(s) ==
    IF s.utxoTime # 0 THEN FinalEpoch(s, s.utxoTime)
    ELSE [s EXCEPT !.pc = "time_req", !.lookups = s.lookups + 1]

\* getTransactionBlockTime returned res.data.block_time, or null from its catch
LookupSettled(s, ok) == FinalEpoch(s, IF ok THEN s.lookupTime ELSE 0)

---------------------------------------------------------------------------
(* Text.  A string is the sequence of its characters.                      *)

UpperCase ==
    <<"A", "B", "C", "D", "E", "F", "G", "H", "I", "J", "K", "L", "M",
      "N", "O", "P", "Q", "R", "S", "T", "U", "V", "W", "X", "Y", "Z">>
LowerCase ==
    <<"a", "b", "c", "d", "e", "f", "g", "h", "i", "j", "k", "l", "m",
      "n", "o", "p", "q", "r", "s", "t", "u", "v", "w", "x", "y", "z">>

\* the /i flag: characters are compared without regard to case
Lower(ch) ==
    IF \E i \in 1..Len(UpperCase) : UpperCase[i] = ch
    THEN LowerCase[CHOOSE i \in 1..Len(UpperCase) : UpperCase[i] = ch]
    ELSE ch

\* String.prototype.startsWith
StartsWith(s, lit) ==
    Len(s) >= Len(lit) /\ \A i \in 1..Len(lit) : s[i] = lit[i]

\* /^lit/i.test(s), lit in lower case
StartsWithCI(s, lit) ==
    Len(s) >= Len(lit) /\ \A i \in 1..Len(lit) : Lower(s[i]) = lit[i]

\* /lit/i.test(s), lit in lower case
ContainsCI(s, lit) ==
    \E k \in 0..(Len(s) - Len(lit)) : \A i \in 1..Len(lit) : Lower(s[k + i]) = lit[i]

Drop(s, n) == SubSeq(s, n + 1, Len(s))

\* the characters of s before the first occurrence of ch, all of s if none
Before(s, ch) ==
    LET at == {i \in 1..Len(s) : s[i] = ch}
    IN  IF at = {} THEN s ELSE SubSeq(s, 1, Min(at) - 1)

\* the characters of s from the first occurrence of ch on, none if none
From(s, ch) == Drop(s, Len(Before(s, ch)))

\* what `.` of a regular expression does not match
LineBreaks == {"\n", "\r"}

HTTP ==
    <<"h", "t", "t", "p", ":", "/", "/">>
HTTPS ==
    <<"h", "t", "t", "p", "s", ":", "/", "/">>
DATA_IMAGE ==
    <<"d", "a", "t", "a", ":", "i", "m", "a", "g", "e", "/">>
AR ==
    <<"a", "r", ":", "/", "/">>
ARWEAVE ==
    <<"h", "t", "t", "p", "s", ":", "/", "/", "a", "r", "w", "e", "a", "v",
      "e", ".", "n", "e", "t", "/">>
IPFS ==
    <<"i", "p", "f", "s", ":", "/", "/">>
IPFS_IPFS ==
    <<"i", "p", "f", "s", ":", "/", "/", "i", "p", "f", "s", "/">>
SLASH_IPFS ==
    <<"/", "i", "p", "f", "s", "/">>
IPFS_GATEWAY ==
    <<"h", "t", "t", "p", "s", ":", "/", "/", "i", "p", "f", "s", ".", "i",
      "o", "/", "i", "p", "f", "s", "/">>
IMAGE_SLASH ==
    <<"i", "m", "a", "g", "e", "/">>
PLACEHOLDER ==
    <<"h", "t", "t", "p", "s", ":", "/", "/", "v", "i", "a", ".", "p", "l",
      "a", "c", "e", "h", "o", "l", "d", "e", "r", ".", "c", "o", "m", "/",
      "6", "0", "0", "x", "4", "0", "0", "?", "t", "e", "x", "t", "=", "N",
      "o", "+", "I", "m", "a", "g", "e">>
NO_IMAGE_150 ==
    <<"h", "t", "t", "p", "s", ":", "/", "/", "v", "i", "a", ".", "p", "l",
      "a", "c", "e", "h", "o", "l", "d", "e", "r", ".", "c", "o", "m", "/",
      "1", "5", "0", "?", "t", "e", "x", "t", "=", "N", "o", "+", "I", "m",
      "a", "g", "e">>
INVALID_IMAGE_150 ==
    <<"h", "t", "t", "p", "s", ":", "/", "/", "v", "i", "a", ".", "p", "l",
      "a", "c", "e", "h", "o", "l", "d", "e", "r", ".", "c", "o", "m", "/",
      "1", "5", "0", "?", "t", "e", "x", "t", "=", "I", "n", "v", "a", "l",
      "i", "d", "+", "I", "m", "a", "g", "e">>
UNKNOWN_FORMAT_150 ==
    <<"h", "t", "t", "p", "s", ":", "/", "/", "v", "i", "a", ".", "p", "l",
      "a", "c", "e", "h", "o", "l", "d", "e", "r", ".", "c", "o", "m", "/",
      "1", "5", "0", "?", "t", "e", "x", "t", "=", "U", "n", "k", "n", "o",
      "w", "n", "+", "F", "o", "r", "m", "a", "t">>
\* process.env.NFTCDN_TOKEN || '...'
PREVIEW_TOKEN ==
    <<"s", "v", "L", "s", "O", "N", "n", "d", "6", "6", "U", "1", "5", "8",
      "8", "Y", "2", "h", "5", "f", "s", "I", "d", "s", "I", "V", "U", "4",
      "B", "S", "t", "G", "v", "I", "G", "d", "q", "w", "G", "w", "3", "J",
      "w">>
\* parseInt(process.env.NFTCDN_SIZE || '512', 10), as String(PREVIEW_SIZE)
PREVIEW_SIZE ==
    <<"5", "1", "2">>
PREVIEW_BASE ==
    <<"h", "t", "t", "p", "s", ":", "/", "/", "n", "f", "t", "c", "d", "n",
      ".", "i", "o", "/", "p", "r", "e", "v", "i", "e", "w">>
\* process.env.POOLPM_TOKEN || '...'
POOLPM_TOKEN ==
    <<"T", "b", "E", "Y", "P", "t", "w", "V", "V", "A", "v", "_", "d", "-",
      "d", "9", "s", "o", "7", "G", "I", "s", "2", "m", "y", "J", "7", "o",
      "4", "C", "I", "T", "R", "N", "E", "h", "0", "9", "N", "F", "B", "P",
      "E">>
POOLPM_HOST ==
    <<".", "p", "o", "o", "l", "p", "m", ".", "n", "f", "t", "c", "d", "n",
      ".", "i", "o", "/", "f", "i", "l", "e", "s", "/">>
POOLPM_TK ==
    <<"/", "?", "t", "k", "=">>
Digits == <<"0", "1", "2", "3", "4", "5", "6", "7", "8", "9">>

\* `${index}` for a one-digit index
NumberToString(n) == <<Digits[n + 1]>>

\* the characters application/x-www-form-urlencoded leaves as they are
Unreserved ==
    {UpperCase[i] : i \in 1..26} \cup {LowerCase[i] : i \in 1..26}
    \cup {Digits[i] : i \in 1..10} \cup {"*", "-", ".", "_"}

\* URLSearchParams.toString() on one character
EncodeChar(ch) ==
    IF ch \in Unreserved THEN <<ch>>
    ELSE CASE ch = " " -> <<"+">>
           [] ch = ":" -> <<"%", "3", "A">>
           [] ch = "/" -> <<"%", "2", "F">>
           [] ch = "#" -> <<"%", "2", "3">>
           [] ch = ";" -> <<"%", "3", "B">>
           [] ch = "," -> <<"%", "2", "C">>
           [] ch = "?" -> <<"%", "3", "F">>
           [] ch = "=" -> <<"%", "3", "D">>
           [] ch = "&" -> <<"%", "2", "6">>
           [] ch = "+" -> <<"%", "2", "B">>
           [] ch = "%" -> <<"%", "2", "5">>
           [] ch = "\n" -> <<"%", "0", "A">>
           [] ch = "\r" -> <<"%", "0", "D">>

RECURSIVE Encode(_)
Encode(s) == IF s = <<>> THEN <<>> ELSE EncodeChar(s[1]) \o Encode(Drop(s, 1))

---------------------------------------------------------------------------
(* JavaScript values, as far as the image code tells them apart: t is the  *)
(* kind ("undefined" stands for null as well), s the characters of a       *)
(* string, hasUrl whether typeof v.url === 'string' and url its            *)
(* characters, items the elements of an array.                             *)

Undefined == [t |-> "undefined", s |-> <<>>, hasUrl |-> FALSE, url |-> <<>>, items |-> <<>>]
StringOf(s) == [Undefined EXCEPT !.t = "string", !.s = s]
ObjectWithUrl(url) == [Undefined EXCEPT !.t = "object", !.hasUrl = TRUE, !.url = url]
PlainObject == [Undefined EXCEPT !.t = "object"]
ArrayOf(items) == [Undefined EXCEPT !.t = "array", !.items = items]

\* Boolean(v)
Truthy(v) == v.t # "undefined" /\ (v.t = "string" => v.s # <<>>)

\* a || b
OrElse(a, b) == IF Truthy(a) THEN a ELSE b

\* v.url
UrlOf(v) == IF v.hasUrl THEN StringOf(v.url) ELSE Undefined

\* An entry of meta.files.
NoFile == [mediaType |-> Undefined, mimeType |-> Undefined, src |-> Undefined, url |-> Undefined]

\* An empty metadata map: data.onchain_metadata || {}
EmptyMeta ==
    [t |-> "object", image |-> Undefined, image_url |-> Undefined,
     thumbnail |-> Undefined, media |-> Undefined, isArray |-> FALSE, files |-> <<>>]

\* const meta = data.onchain_metadata || {}
MetaOf(data) == OrElse(data.onchain_metadata, EmptyMeta)

\* f => /image\//i.test(f?.mediaType || f?.mimeType)
IsImageFile(f) ==
    LET type == OrElse(f.mediaType, f.mimeType)
    IN  type.t = "string" /\ ContainsCI(type.s, IMAGE_SLASH)

\* meta.files.find(IsImageFile), NoFile standing for undefined
FindImageFile(files) ==
    LET at == {i \in 1..Len(files) : IsImageFile(files[i])}
    IN  IF at = {} THEN NoFile ELSE files[Min(at)]

\* [ ... ].flat()
RECURSIVE Flat(_)
Flat(list) ==
    IF list = <<>> THEN <<>>
    ELSE (IF list[1].t = "array" THEN list[1].items ELSE <<list[1]>>) \o Flat(Drop(list, 1))

ExtractRawImage(meta) ==
    IF meta.t # "object" THEN Undefined
    ELSE LET file == IF meta.isArray THEN FindImageFile(meta.files) ELSE NoFile
             candidates == SelectSeq(Flat(<<meta.image, meta.image_url, meta.thumbnail,
                                           meta.media, file.src, file.url>>),
                                     Truthy)
             found == {i \in 1..Len(candidates) :
                          \/ candidates[i].t = "string"
                          \/ candidates[i].t = "object" /\ candidates[i].hasUrl}
             raw == IF found = {} THEN Undefined ELSE candidates[Min(found)]
             raw2 == IF raw.t = "object" /\ Truthy(UrlOf(raw)) THEN UrlOf(raw) ELSE raw
         IN  IF ~Truthy(raw) THEN Undefined
             ELSE IF raw2.t = "string" THEN StringOf(Before(raw2.s, "#"))
             ELSE Undefined

\* raw.match(/^<prefix>([^/]+)(.*)?$/i): the characters after the prefix when
\* they start with a segment and `.*` can take what follows it
IpfsMatch(s, prefix) ==
    /\ StartsWithCI(s, prefix)
    /\ Before(Drop(s, Len(prefix)), "/") # <<>>
    /\ \A i \in 1..Len(From(Drop(s, Len(prefix)), "/")) :
          From(Drop(s, Len(prefix)), "/")[i] \notin LineBreaks

\* Variant: the gateway form ipfs://ipfs/CID is not tried first.
NormalizeToCanonicalUrlPlain(raw) ==
    IF ~Truthy(raw) THEN Undefined
    ELSE IF StartsWithCI(raw.s, HTTP) \/ StartsWithCI(raw.s, HTTPS)
            \/ StartsWithCI(raw.s, DATA_IMAGE) THEN raw
    ELSE IF StartsWithCI(raw.s, AR) THEN StringOf(ARWEAVE \o Drop(raw.s, Len(AR)))
    ELSE IF IpfsMatch(raw.s, IPFS) THEN StringOf(IPFS \o Drop(raw.s, Len(IPFS)))
    ELSE IF IpfsMatch(raw.s, SLASH_IPFS) THEN StringOf(IPFS \o Drop(raw.s, Len(SLASH_IPFS)))
    ELSE raw

NormalizeToCanonicalUrl(raw) ==
    IF ~Truthy(raw) THEN Undefined
    ELSE IF StartsWithCI(raw.s, HTTP) \/ StartsWithCI(raw.s, HTTPS)
            \/ StartsWithCI(raw.s, DATA_IMAGE) THEN raw
    ELSE IF StartsWithCI(raw.s, AR) THEN StringOf(ARWEAVE \o Drop(raw.s, Len(AR)))
    ELSE LET prefix == IF IpfsMatch(raw.s, IPFS_IPFS) THEN IPFS_IPFS
                       ELSE IF IpfsMatch(raw.s, IPFS) THEN IPFS
                       ELSE IF IpfsMatch(raw.s, SLASH_IPFS) THEN SLASH_IPFS
                       ELSE <<>>
             cid == Before(Drop(raw.s, Len(prefix)), "/")
             rest == From(Drop(raw.s, Len(prefix)), "/")
         IN  IF prefix # <<>> THEN StringOf(IPFS \o cid \o rest) ELSE raw

\* Variant: the test of `canonical` is missing.
BuildPoolPreviewUrlUnchecked(raw) ==
    LET canonical == NormalizeToCanonicalUrl(raw)
        text == IF Truthy(canonical) THEN canonical.s ELSE <<"n", "u", "l", "l">>
    IN  StringOf(PREVIEW_BASE \o <<"?", "s", "i", "z", "e", "=">> \o PREVIEW_SIZE
                 \o <<"&", "t", "k", "=">> \o Encode(PREVIEW_TOKEN)
                 \o <<"&", "u", "r", "l", "=">> \o Encode(text))

\* `${base}?${params.toString()}`
BuildPoolPreviewUrl(raw) ==
    LET canonical == NormalizeToCanonicalUrl(raw)
    IN  IF ~Truthy(canonical) THEN Undefined
        ELSE StringOf(PREVIEW_BASE \o <<"?", "s", "i", "z", "e", "=">> \o PREVIEW_SIZE
                      \o <<"&", "t", "k", "=">> \o Encode(PREVIEW_TOKEN)
                      \o <<"&", "u", "r", "l", "=">> \o Encode(canonical.s))

\* the rawImage expression of the variant that uses ipfsToHttp
RawImageOf(meta) ==
    IF meta.t # "object" THEN Undefined
    ELSE LET file == FindImageFile(meta.files)
             first == IF meta.image.t = "array"
                      THEN (IF meta.image.items = <<>> THEN Undefined ELSE meta.image.items[1])
                      ELSE meta.image
             second == IF Truthy(meta.image) /\ meta.image.t = "object"
                       THEN UrlOf(meta.image) ELSE Undefined
         IN  OrElse(first, OrElse(second, OrElse(meta.media, OrElse(file.src, file.url))))

IpfsToHttp(ipfs) ==
    IF ~Truthy(ipfs) THEN StringOf(NO_IMAGE_150)
    ELSE LET v == IF ipfs.t = "array"
                  THEN (IF ipfs.items = <<>> THEN Undefined ELSE ipfs.items[1])
                  ELSE IF ipfs.t = "object" /\ Truthy(UrlOf(ipfs)) THEN UrlOf(ipfs)
                  ELSE ipfs
         IN  IF v.t # "string" THEN StringOf(INVALID_IMAGE_150)
             ELSE IF StartsWith(v.s, IPFS) THEN StringOf(IPFS_GATEWAY \o Drop(v.s, Len(IPFS)))
             ELSE IF StartsWith(v.s, <<"h", "t", "t", "p">>) THEN v
             ELSE StringOf(UNKNOWN_FORMAT_150)

\* `https://${fingerprint}.poolpm.nftcdn.io/files/${index}/?tk=${POOLPM_TOKEN}`
PoolpmFileUrl(fingerprint, index) ==
    HTTPS \o fingerprint \o POOLPM_HOST \o NumberToString(index) \o POOLPM_TK \o POOLPM_TOKEN

---------------------------------------------------------------------------
(* The image of one asset record, as the body of the publish loop works it *)
(* out, in each variant of the file, and the inputs it is checked on.      *)

ImageVariants == {"ipfsToHttp", "poolpm", "preview"}

ImgOff ==
    [mode |-> "off", variant |-> "none", data |-> <<>>, stage |-> "off",
     maxTries |-> 0, i |-> 0, probes |-> <<>>, imageUrl |-> Undefined,
     raw |-> Undefined, out |-> Undefined, again |-> Undefined]

Cids == {<<"Q", "m", "1">>, <<"b", "a", "f", "y">>, <<"i", "p", "f", "s", "Q">>}
Paths == {<<>>, <<"/">>, <<"/", "a", ".", "p", "n", "g">>, <<"/", "x", "/", "y", ".", "p", "n", "g">>, <<"/", "i", "p", "f", "s", "/", "z">>}
Forms == {IPFS_IPFS, IPFS, SLASH_IPFS, <<"I", "P", "F", "S", ":", "/", "/">>, <<"/", "I", "P", "F", "S", "/">>}

RawRefs ==
    {StringOf(f \o c \o p) : f \in Forms, c \in Cids, p \in Paths}
    \cup {StringOf(<<"h", "t", "t", "p", ":", "/", "/", "h", "/", "i", "p", "f", "s", "/", "Q", "m", "1">>), StringOf(<<"H", "T", "T", "P", "S", ":", "/", "/", "h", "/", "a", ".", "p", "n", "g">>),
          StringOf(<<"d", "a", "t", "a", ":", "i", "m", "a", "g", "e", "/", "p", "n", "g", ";", "b", "a", "s", "e", "6", "4", ",", "A", "A">>), StringOf(<<"D", "a", "t", "a", ":", "I", "m", "a", "g", "e", "/", "g", "i", "f", ",", "x">>),
          StringOf(<<"a", "r", ":", "/", "/", "t", "x", "1">>), StringOf(<<"i", "p", "f", "s", ":", "/", "/", "i", "p", "f", "s", "/", "i", "p", "f", "s", "/", "Q", "m", "1">>),
          StringOf(<<"/", "i", "p", "f", "s", "/", "i", "p", "f", "s", "/", "Q", "m", "1">>), StringOf(<<"/", "i", "p", "f", "s", "/", "I", "P", "F", "S", "/", "Q", "m", "1", "/", "a", ".", "p", "n", "g">>),
          StringOf(<<"i", "p", "f", "s", ":", "/", "/", "i", "p", "f", "s">>), StringOf(<<"a", "r", ":", "/", "/", "a", "r", ":", "/", "/", "t", "x", "1">>),
          StringOf(<<"i", "p", "f", "s", ":", "/", "/">>), StringOf(<<"/", "i", "p", "f", "s", "/", "/", "x">>), StringOf(<<"g", "a", "r", "b", "a", "g", "e">>),
          StringOf(<<>>), Undefined}

RawImage == StringOf(<<"i", "p", "f", "s", ":", "/", "/", "Q", "m", "1", "/", "a", ".", "p", "n", "g", "#", "f">>)

Metas ==
    {[EmptyMeta EXCEPT !.image = image, !.image_url = image_url, !.thumbnail = thumbnail,
                       !.media = media, !.isArray = files[1], !.files = files[2]] :
        image \in {Undefined, StringOf(<<>>), RawImage, PlainObject,
                   ObjectWithUrl(<<"h", "t", "t", "p", "s", ":", "/", "/", "h", "/", "i", ".", "p", "n", "g">>), ObjectWithUrl(<<>>),
                   ArrayOf(<<>>), ArrayOf(<<RawImage>>)},
        image_url \in {Undefined, StringOf(<<"/", "i", "p", "f", "s", "/", "Q", "m", "1">>)},
        thumbnail \in {Undefined, StringOf(<<"a", "r", ":", "/", "/", "t", "x", "1">>)},
        media \in {Undefined, StringOf(<<"g", "a", "r", "b", "a", "g", "e">>)},
        files \in {<<FALSE, <<>>>>, <<TRUE, <<>>>>,
                   <<TRUE, <<[NoFile EXCEPT !.mediaType = StringOf(<<"t", "e", "x", "t", "/", "h", "t", "m", "l">>),
                                            !.src = StringOf(<<"h", "t", "t", "p", "s", ":", "/", "/", "h", "/", "p", "a", "g", "e">>)]>>>>,
                   <<TRUE, <<NoFile,
                             [NoFile EXCEPT !.mimeType = StringOf(<<"I", "m", "a", "g", "e", "/", "P", "N", "G">>),
                                            !.url = StringOf(<<"i", "p", "f", "s", ":", "/", "/", "b", "a", "f", "y">>)]>>>>,
                   <<TRUE, <<[NoFile EXCEPT !.mediaType = StringOf(<<"i", "m", "a", "g", "e", "/", "p", "n", "g">>),
                                            !.src = ArrayOf(<<StringOf(<<"h", "t", "t", "p", "s", ":", "/", "/", "h", "/", "f", ".", "p", "n", "g">>)>>)]>>>>}}

Fingerprint == StringOf(<<"a", "s", "s", "e", "t", "1", "q">>)

\* what one axios.head can come to: a response (status, content type) or an
\* error before any response (the 5 s timeout, a network failure)
ProbeOutcomes ==
    {[error |-> FALSE, status |-> 200, contentType |-> <<"i", "m", "a", "g", "e", "/", "p", "n", "g">>],
     [error |-> FALSE, status |-> 200, contentType |-> <<"t", "e", "x", "t", "/", "h", "t", "m", "l">>],
     [error |-> FALSE, status |-> 404, contentType |-> <<"I", "m", "a", "g", "e", "/", "P", "N", "G">>],
     [error |-> FALSE, status |-> 503, contentType |-> <<"i", "m", "a", "g", "e", "/", "p", "n", "g">>],
     [error |-> TRUE, status |-> 0, contentType |-> <<>>]}

\* validateStatus: s => s < 500
HeadThrows(o) == o.error \/ ~(o.status < 500)

\* head.status >= 200 && head.status < 400 && /image\//i.test(ct)
IsImageResponse(o) ==
    o.status >= 200 /\ o.status < 400 /\ ContainsCI(o.contentType, IMAGE_SLASH)

\* if (!imageUrl) imageUrl = '...placeholder...'; then the embed is built
Resolved(s, url) ==
    [s EXCEPT !.stage = "embed", !.imageUrl = OrElse(url, StringOf(PLACEHOLDER))]

\* Variant: the try block has no catch.
AfterProbeUncaught(s, o) ==
    LET url == PoolpmFileUrl(s.data.fingerprint.s, s.i)
        s1 == [s EXCEPT !.probes = Append(s.probes, [index |-> s.i, url |-> url, outcome |-> o])]
    IN  IF HeadThrows(o) THEN [s1 EXCEPT !.stage = "threw"]
        ELSE IF IsImageResponse(o) THEN Resolved(s1, StringOf(url))
        ELSE IF s.i + 1 < s.maxTries THEN [s1 EXCEPT !.i = s.i + 1]
        ELSE Resolved(s1, Undefined)

\* one axios.head of resolvePoolpmImageByFingerprint settled with `o`: return
\* url, or the next index, or return null
AfterProbe(s, o) ==
    LET url == PoolpmFileUrl(s.data.fingerprint.s, s.i)
        s1 == [s EXCEPT !.probes = Append(s.probes, [index |-> s.i, url |-> url, outcome |-> o])]
    IN  IF ~HeadThrows(o) /\ IsImageResponse(o) THEN Resolved(s1, StringOf(url))
        ELSE IF s.i + 1 < s.maxTries THEN [s1 EXCEPT !.i = s.i + 1]
        ELSE Resolved(s1, Undefined)

\* let imageUrl = null; if (data.fingerprint) imageUrl = await resolve...(data.fingerprint, 4)
\* for (let i = 0; i < maxTries; i++): up to the first axios.head
AfterFingerprint(s, maxTries) ==
    IF Truthy(s.data.fingerprint) /\ 0 < maxTries
    THEN [s EXCEPT !.stage = "probe", !.maxTries = maxTries, !.i = 0]
    ELSE Resolved(s, Undefined)

ImageInit ==
    /\ scn = "rich"
    /\ boot = "login"
    /\ stakeIdx = 0
    /\ monitoredAddresses = <<>>
    /\ processedTxs = {}
    /\ ticks = 0
    /\ cyc = [c \in CycleIds |-> Idle]
    /\ notifiedBy = {}
    /\ utxoFails = 0
    /\ timers = 0
    /\ lookedUp = {}
    /\ txl = TxlOff
    /\ \/ \E v \in {"ipfsToHttp", "preview"} : \E m \in Metas \cup {Undefined, StringOf(<<"x">>)} :
             img = [ImgOff EXCEPT !.mode = "record", !.variant = v, !.stage = "start",
                                  !.data = [fingerprint |-> Undefined, onchain_metadata |-> m]]
       \/ \E f \in {Undefined, StringOf(<<>>), Fingerprint} :
             img = [ImgOff EXCEPT !.mode = "record", !.variant = "poolpm", !.stage = "start",
                                  !.data = [fingerprint |-> f, onchain_metadata |-> Undefined]]
       \/ \E r \in RawRefs :
             img = [ImgOff EXCEPT !.mode = "url", !.stage = "start", !.raw = r]

\* const imageUrl = ipfsToHttp(rawImage) || '...placeholder...'
ImageByGateway ==
    /\ img.variant = "ipfsToHttp" /\ img.stage = "start"
    /\ img' = Resolved(img, IpfsToHttp(RawImageOf(MetaOf(img.data))))
    /\ UNCHANGED <<mainVars, txl>>

\* const raw = extractRawImage(meta); const imageUrl = buildPoolPreviewUrl(raw) || '...'
ImageByPreview ==
    /\ img.variant = "preview" /\ img.stage = "start"
    /\ img' = Resolved(img, BuildPoolPreviewUrl(ExtractRawImage(MetaOf(img.data))))
    /\ UNCHANGED <<mainVars, txl>>

ImageByFingerprint ==
    /\ img.variant = "poolpm" /\ img.stage = "start"
    /\ img' = AfterFingerprint(img, 4)
    /\ UNCHANGED <<mainVars, txl>>

Probe(o) ==
    /\ img.stage = "probe"
    /\ img' = AfterProbe(img, o)
    /\ UNCHANGED <<mainVars, txl>>

\* .setImage(imageUrl) ... await channel.send({ embeds: [embed] })
SendEmbed ==
    /\ img.stage = "embed"
    /\ img' = [img EXCEPT !.stage = "sent"]
    /\ UNCHANGED <<mainVars, txl>>

\* normalizeToCanonicalUrl(raw), on its own
Normalize ==
    /\ img.mode = "url" /\ img.stage = "start"
    /\ img' = [img EXCEPT !.stage = "done", !.out = NormalizeToCanonicalUrl(img.raw)]
    /\ UNCHANGED <<mainVars, txl>>

\* normalizeToCanonicalUrl applied to its own result
NormalizeAgain ==
    /\ img.mode = "url" /\ img.stage = "done"
    /\ img' = [img EXCEPT !.stage = "twice", !.again = NormalizeToCanonicalUrl(img.out)]
    /\ UNCHANGED <<mainVars, txl>>

ImageNext ==
    \/ ImageByGateway
    \/ ImageByPreview
    \/ ImageByFingerprint
    \/ \E o \in ProbeOutcomes : Probe(o)
    \/ SendEmbed
    \/ Normalize
    \/ NormalizeAgain

ImageSpec == ImageInit /\ [][ImageNext]_vars

---------------------------------------------------------------------------
(* One transaction from the list to the matching: inputs and steps.        *)

TxLoopVariants == {"epoch573", "unfiltered"}

\* absent, before the genesis, the last second of epoch 572, the first of 573
BlockTimes == {0, CARDANO_GENESIS_TIME - 1, 1753739090, 1753739091}

TxLoopInit ==
    /\ scn = "rich"
    /\ boot = "login"
    /\ stakeIdx = 0
    /\ monitoredAddresses = <<>>
    /\ processedTxs = {}
    /\ ticks = 0
    /\ cyc = [c \in CycleIds |-> Idle]
    /\ notifiedBy = {}
    /\ utxoFails = 0
    /\ timers = 0
    /\ lookedUp = {}
    /\ img = ImgOff
    /\ \E v \in TxLoopVariants : \E has \in BOOLEAN :
         \E bt \in BlockTimes : \E ut \in BlockTimes : \E lt \in BlockTimes :
            txl = [TxlOff EXCEPT !.pc = "head", !.variant = v, !.has = has,
                                 !.tx = [tx_hash |-> "t1", block_time |-> bt],
                                 !.utxoTime = ut, !.lookupTime = lt]

\* for (const tx of allTxs): the head of one iteration
TxlHead ==
    /\ txl.pc = "head"
    /\ txl' = TakeUp(txl)
    /\ UNCHANGED <<mainVars, img>>

TxlUtxoOk ==
    /\ txl.pc = "utxo_req"
    /\ txl' = UtxoArrived(txl)
    /\ UNCHANGED <<mainVars, img>>

\* catch (err) { ...; continue; }
TxlUtxoFail ==
    /\ txl.pc = "utxo_req"
    /\ txl' = [txl EXCEPT !.pc = "skipped", !.why = "utxo"]
    /\ UNCHANGED <<mainVars, img>>

TxlLookup(ok) ==
    /\ txl.pc = "time_req"
    /\ txl' = LookupSettled(txl, ok)
    /\ UNCHANGED <<mainVars, img>>

TxLoopNext ==
    \/ TxlHead
    \/ TxlUtxoOk
    \/ TxlUtxoFail
    \/ \E ok \in BOOLEAN : TxlLookup(ok)

TxLoopSpec == TxLoopInit /\ [][TxLoopNext]_vars

---------------------------------------------------------------------------
(* Startup: client.once('ready', ...)                                      *)

Init ==
    /\ scn \in Scenarios
    /\ boot = "login"
    /\ stakeIdx = 0
    /\ monitoredAddresses = <<>>
    /\ processedTxs = {}
    /\ ticks = 0
    /\ cyc = [c \in CycleIds |-> Idle]
    /\ notifiedBy = {}
    /\ utxoFails = 0
    /\ timers = 0
    /\ lookedUp = {}
    /\ img = ImgOff
    /\ txl = TxlOff

\* Variant: the list is not passed through a Set.
FinishResolveNoSet(list) == Append(list, EXTRA_MONITORED_ADDRESS)

\* monitoredAddresses.push(EXTRA_MONITORED_ADDRESS); monitoredAddresses = [...new Set(...)]
FinishResolve(list) == Dedup(Append(list, EXTRA_MONITORED_ADDRESS))

\* the loop over STAKE_KEYS from index k, up to its next axios.get
ResolveFrom(list, k) ==
    IF k <= Len(STAKE_KEYS)
    THEN /\ boot' = "resolve"
         /\ stakeIdx' = k
         /\ monitoredAddresses' = list
    ELSE /\ boot' = "announce_fetch"
         /\ stakeIdx' = k
         /\ monitoredAddresses' = FinishResolve(list)

\* Variant: setInterval is called before the addresses are resolved.
ReadyTimerFirst ==
    /\ boot = "login"
    /\ ResolveFrom(<<>>, 1)
    /\ timers' = timers + 1
    /\ UNCHANGED <<scn, processedTxs, ticks, cyc, notifiedBy, utxoFails, lookedUp, img, txl>>

\* the 'ready' event: resolveAddressesFromStakeKeys() starts
Ready ==
    /\ boot = "login"
    /\ ResolveFrom(<<>>, 1)
    /\ UNCHANGED <<scn, processedTxs, ticks, cyc, notifiedBy, utxoFails, timers, lookedUp, img, txl>>

StakeLookupOk ==
    /\ boot = "resolve"
    /\ LET res == StakeAddresses(STAKE_KEYS[stakeIdx])
           got == [i \in 1..Len(res) |-> res[i].address]
       IN  ResolveFrom(monitoredAddresses \o got, stakeIdx + 1)
    /\ lookedUp' = lookedUp \cup {stakeIdx}
    /\ UNCHANGED <<scn, processedTxs, ticks, cyc, notifiedBy, utxoFails, timers, img, txl>>

StakeLookupFail ==
    /\ boot = "resolve"
    /\ ResolveFrom(monitoredAddresses, stakeIdx + 1)
    /\ UNCHANGED <<scn, processedTxs, ticks, cyc, notifiedBy, utxoFails, timers, lookedUp, img, txl>>

\* client.channels.fetch(DISCORD_CHANNEL_ID) of the startup message
AnnounceFetch(ok) ==
    /\ boot = "announce_fetch"
    /\ boot' = IF ok THEN "announce_send" ELSE "running"
    /\ timers' = IF ok THEN timers ELSE timers + 1
    /\ UNCHANGED <<scn, stakeIdx, monitoredAddresses, processedTxs, ticks, cyc,
                   notifiedBy, utxoFails, lookedUp, img, txl>>

\* channel.send(...) settled; then setInterval(monitorListings, CHECK_INTERVAL)
AnnounceSend ==
    /\ boot = "announce_send"
    /\ boot' = "running"
    /\ timers' = timers + 1
    /\ UNCHANGED <<scn, stakeIdx, monitoredAddresses, processedTxs, ticks, cyc,
                   notifiedBy, utxoFails, lookedUp, img, txl>>

---------------------------------------------------------------------------
(* The interval timer and the cycles.                                      *)

Address(s) == monitoredAddresses[s.ai]

Move(c, s) ==
    /\ cyc' = [cyc EXCEPT ![c] = s]
    /\ UNCHANGED <<scn, boot, stakeIdx, monitoredAddresses, ticks, timers, lookedUp, img, txl>>

Quiet == UNCHANGED utxoFails

\* The timer fires: monitorListings() is called and runs up to its first
\* page request.  setInterval does not wait for the promise of the
\* previous call.
Tick(c) ==
    /\ timers > 0
    /\ ticks < MaxTicks
    /\ cyc[c].pc = "idle"
    /\ c = Min({d \in CycleIds : cyc[d].pc = "idle"})
    /\ ticks' = ticks + 1
    /\ cyc' = [cyc EXCEPT ![c] =
                 IF Len(monitoredAddresses) > 0
                 THEN StartAddress([Idle EXCEPT !.id = ticks + 1], 1)
                 ELSE Idle]
    /\ UNCHANGED <<scn, boot, stakeIdx, monitoredAddresses, processedTxs, notifiedBy,
                   utxoFails, timers, lookedUp, img, txl>>

PageOk(c) ==
    /\ cyc[c].pc = "page_req"
    /\ Move(c, AfterPageOk(cyc[c], PageData(scn, Address(cyc[c]), cyc[c].req),
                           processedTxs, monitoredAddresses))
    /\ UNCHANGED <<processedTxs, notifiedBy>>
    /\ Quiet

\* err.response.status === 429: await sleep(10000)
PageRateLimited(c) ==
    /\ cyc[c].pc = "page_req"
    /\ Move(c, [cyc[c] EXCEPT !.pc = "retry_sleep"])
    /\ UNCHANGED <<processedTxs, notifiedBy>>
    /\ Quiet

PageError(c) ==
    /\ cyc[c].pc = "page_req"
    /\ Move(c, AfterPageError(cyc[c], processedTxs, monitoredAddresses))
    /\ UNCHANGED <<processedTxs, notifiedBy>>
    /\ Quiet

\* sleep(300) is over
PageSleepWake(c) ==
    /\ cyc[c].pc = "page_sleep"
    /\ Move(c, LoopPage(cyc[c], cyc[c].page, processedTxs, monitoredAddresses))
    /\ UNCHANGED <<processedTxs, notifiedBy>>
    /\ Quiet

\* sleep(10000) is over
RetryWake(c) ==
    /\ cyc[c].pc = "retry_sleep"
    /\ Move(c, AfterRetrySleep(cyc[c], processedTxs, monitoredAddresses))
    /\ UNCHANGED <<processedTxs, notifiedBy>>
    /\ Quiet

Land(c, r) ==
    /\ Move(c, r.local)
    /\ processedTxs' = r.processed

UtxoOk(c) ==
    /\ cyc[c].pc = "utxo_req"
    /\ Land(c, AfterUtxoOk(cyc[c], UtxoData(cyc[c].allTxs[cyc[c].ti].tx_hash),
                           Address(cyc[c]), processedTxs, monitoredAddresses))
    /\ UNCHANGED notifiedBy
    /\ Quiet

UtxoFail(c) ==
    /\ cyc[c].pc = "utxo_req"
    /\ utxoFails < MaxUtxoFails
    /\ utxoFails' = utxoFails + 1
    /\ Land(c, AfterUtxoFail(cyc[c], processedTxs, monitoredAddresses))
    /\ UNCHANGED notifiedBy

\* getTransactionBlockTime(tx.tx_hash) returned res.data.block_time
TimeOk(c) ==
    /\ cyc[c].pc = "time_req"
    /\ Land(c, Detect(cyc[c], TxData(cyc[c].allTxs[cyc[c].ti].tx_hash).block_time,
                      Address(cyc[c]), processedTxs, monitoredAddresses))
    /\ UNCHANGED notifiedBy
    /\ Quiet

\* getTransactionBlockTime caught an error and returned null
TimeFail(c) ==
    /\ cyc[c].pc = "time_req"
    /\ Land(c, Detect(cyc[c], 0, Address(cyc[c]), processedTxs, monitoredAddresses))
    /\ UNCHANGED notifiedBy
    /\ Quiet

\* sleep(250) of one mapped promise is over: its axios.get is issued
AssetWake(c, i) ==
    /\ cyc[c].pc = "assets"
    /\ i \in 1..Len(cyc[c].fetch)
    /\ cyc[c].fetch[i] = "sleep"
    /\ Move(c, [cyc[c] EXCEPT !.fetch[i] = "req"])
    /\ UNCHANGED <<processedTxs, notifiedBy>>
    /\ Quiet

AssetOk(c, i) ==
    /\ cyc[c].pc = "assets"
    /\ i \in 1..Len(cyc[c].fetch)
    /\ cyc[c].fetch[i] = "req"
    /\ Land(c, AfterAsset(cyc[c], i, AssetData(cyc[c].matchingAssets[i]),
                          processedTxs, monitoredAddresses))
    /\ UNCHANGED notifiedBy
    /\ Quiet

AssetFail(c, i) ==
    /\ cyc[c].pc = "assets"
    /\ i \in 1..Len(cyc[c].fetch)
    /\ cyc[c].fetch[i] = "req"
    /\ Land(c, AfterAsset(cyc[c], i, NullAsset, processedTxs, monitoredAddresses))
    /\ UNCHANGED notifiedBy
    /\ Quiet

\* client.channels.fetch(DISCORD_CHANNEL_ID) resolved: channel.send is issued
ChannelOk(c) ==
    /\ cyc[c].pc = "chan_fetch"
    /\ Move(c, [cyc[c] EXCEPT !.pc = "chan_send"])
    /\ UNCHANGED <<processedTxs, notifiedBy>>
    /\ Quiet

ChannelFail(c) ==
    /\ cyc[c].pc = "chan_fetch"
    /\ Land(c, AfterPublish(cyc[c], FALSE, processedTxs, monitoredAddresses))
    /\ UNCHANGED notifiedBy
    /\ Quiet

\* channel.send({ embeds: [embed] }) resolved: the notification is out
SendOk(c) ==
    /\ cyc[c].pc = "chan_send"
    /\ Land(c, AfterPublish(cyc[c], TRUE, processedTxs, monitoredAddresses))
    /\ notifiedBy' = notifiedBy \cup {<<cyc[c].allTxs[cyc[c].ti].tx_hash, cyc[c].id>>}
    /\ Quiet

SendFail(c) ==
    /\ cyc[c].pc = "chan_send"
    /\ Land(c, AfterPublish(cyc[c], FALSE, processedTxs, monitoredAddresses))
    /\ UNCHANGED notifiedBy
    /\ Quiet

---------------------------------------------------------------------------

Next ==
    \/ Ready
    \/ StakeLookupOk
    \/ StakeLookupFail
    \/ \E ok \in BOOLEAN : AnnounceFetch(ok)
    \/ AnnounceSend
    \/ \E c \in CycleIds :
        \/ Tick(c)
        \/ PageOk(c)
        \/ PageRateLimited(c)
        \/ PageError(c)
        \/ PageSleepWake(c)
        \/ RetryWake(c)
        \/ UtxoOk(c)
        \/ UtxoFail(c)
        \/ TimeOk(c)
        \/ TimeFail(c)
        \/ ChannelOk(c)
        \/ ChannelFail(c)
        \/ SendOk(c)
        \/ SendFail(c)
        \/ \E i \in 1..2 : AssetWake(c, i) \/ AssetOk(c, i) \/ AssetFail(c, i)

Spec == Init /\ [][Next]_vars

\* Every request is answered and every sleep ends.
Settles(c) ==
    \/ PageOk(c) \/ PageRateLimited(c) \/ PageError(c)
    \/ PageSleepWake(c) \/ RetryWake(c)
    \/ UtxoOk(c) \/ UtxoFail(c)
    \/ TimeOk(c) \/ TimeFail(c)
    \/ ChannelOk(c) \/ ChannelFail(c)
    \/ SendOk(c) \/ SendFail(c)
    \/ \E i \in 1..2 : AssetWake(c, i) \/ AssetOk(c, i) \/ AssetFail(c, i)

\* A page request is not answered with 429 for ever.
LimitClears(c) == PageOk(c) \/ PageError(c)

\* The program with every call settling, 429 possibly for ever.
SettlingSpec == Spec /\ \A c \in CycleIds : WF_vars(Settles(c))

\* The same with the rate limit clearing.
FairSpec == SettlingSpec /\ \A c \in CycleIds : SF_vars(LimitClears(c))

---------------------------------------------------------------------------
(* Vocabulary of the properties.                                           *)

TxPcs == {"utxo_req", "time_req", "assets", "chan_fetch", "chan_send"}
PagePcs == {"page_req", "page_sleep", "retry_sleep"}

Active == {c \in CycleIds : cyc[c].pc # "idle"}

HashOf(s) == s.allTxs[s.ti].tx_hash

\* the first POLICY_LEN characters of the unit are no entry of POLICY_IDS
Unwatched(unit) ==
    \A k \in 1..Len(POLICY_IDS) :
        \E j \in 1..POLICY_LEN : j > Len(unit) \/ unit[j] # POLICY_IDS[k][j]

\* the cycle in s has left the transaction it was working on
MovedOn(s, n) ==
    /\ s.pc \in TxPcs
    /\ n.pc \notin TxPcs \/ n.ti # s.ti \/ n.ai # s.ai \/ n.id # s.id

\* n is where the cycle in s stands once it goes on behind index `from - 1`
\* of its list: at the UTXO request of the first record from there on that
\* `procd` does not hold, else at page 1 of the next address, else finished
GoesOn(s, n, from, procd) ==
    LET rest == {i \in from..Len(s.allTxs) : s.allTxs[i].tx_hash \notin procd}
    IN  IF rest # {}
        THEN /\ n.pc = "utxo_req" /\ n.id = s.id /\ n.ai = s.ai
             /\ n.allTxs = s.allTxs
             /\ n.ti \in rest /\ \A i \in rest : n.ti <= i
        ELSE IF s.ai < Len(monitoredAddresses)
             THEN /\ n.pc = "page_req" /\ n.id = s.id /\ n.ai = s.ai + 1
                  /\ n.req = 1 /\ n.allTxs = <<>>
             ELSE n.pc = "idle"

RECURSIVE ConcatPages(_, _, _)
ConcatPages(s, address, k) ==
    IF k = 0 THEN <<>>
    ELSE ConcatPages(s, address, k - 1) \o PageData(s, address, k)

\* the units of the entries of `matching` whose fetch gave a record, in order
RECURSIVE Fetched(_, _, _)
Fetched(matching, details, k) ==
    IF k = 0 THEN <<>>
    ELSE IF details[k].isNull THEN Fetched(matching, details, k - 1)
         ELSE Append(Fetched(matching, details, k - 1), matching[k])

UnitsOf(records) == [i \in 1..Len(records) |-> records[i].asset]

\* the pairs <<output, amount entry>> of `utxo` that pay a unit of a watched
\* policy to `address`
QualifyingPairs(utxo, address) ==
    UNION {{<<j, k>> : k \in {k \in 1..Len(utxo.outputs[j].amount) :
                                ~Unwatched(utxo.outputs[j].amount[k].unit)}} :
           j \in {j \in 1..Len(utxo.outputs) : utxo.outputs[j].address = address}}

PairBefore(p, q) == p[1] < q[1] \/ (p[1] = q[1] /\ p[2] < q[2])

\* the units of the qualifying pairs, in output order
QualifyingUnits(utxo, address) ==
    LET pairs == QualifyingPairs(utxo, address)
        at(i) == CHOOSE p \in pairs :
                    Cardinality({q \in pairs : PairBefore(q, p)}) = i - 1
    IN  [i \in 1..Cardinality(pairs) |-> utxo.outputs[at(i)[1]].amount[at(i)[2]].unit]

---------------------------------------------------------------------------
(* C1 -- no transaction is notified by more than one cycle: once a hash is *)
(* in processedTxs no cycle publishes for it again.  The overlapping       *)
(* cycles of C4 violate it.                                                *)

C1_OneCyclePerTx ==
    \A p \in notifiedBy : \A q \in notifiedBy : p[1] = q[1] => p[2] = q[2]

(* C2 -- no asset request is issued and no notification is published for a *)
(* unit whose first 56 characters are not in POLICY_IDS, even when the     *)
(* transaction also carries watched units.                                 *)

C2_OnlyWatchedPolicies ==
    \A c \in CycleIds :
        LET s == cyc[c]
        IN  /\ \A i \in 1..Len(s.fetch) :
                  s.fetch[i] # "sleep" => ~Unwatched(s.matchingAssets[i])
            /\ \A i \in 1..Len(s.pub) : ~Unwatched(s.pub[i].asset)
            /\ \A i \in 1..Len(s.sent) : ~Unwatched(s.sent[i].asset)

C2_Witness ==
    \E c \in CycleIds :
        LET s == cyc[c]
        IN  /\ Len(s.sent) > 0
            /\ s.sent[1].ok
            /\ \E j \in 1..Len(s.utxo.outputs) :
                  /\ s.utxo.outputs[j].address = monitoredAddresses[s.ai]
                  /\ \E k \in 1..Len(s.utxo.outputs[j].amount) :
                        /\ s.utxo.outputs[j].amount[k].unit # Lovelace
                        /\ Unwatched(s.utxo.outputs[j].amount[k].unit)

(* C3 -- while address A is scanned, every entry of the matching list is a *)
(* unit of an output whose address is A, never 'lovelace', and there are   *)
(* no more entries than such outputs hold.                                 *)

C3_OnlyDepositsToScannedAddress ==
    \A c \in CycleIds :
        LET s == cyc[c]
            outs == s.utxo.outputs
            own == {j \in 1..Len(outs) : outs[j].address = monitoredAddresses[s.ai]}
            entries == {jk \in own \X (1..4) :
                          /\ jk[2] <= Len(outs[jk[1]].amount)
                          /\ outs[jk[1]].amount[jk[2]].unit # Lovelace}
        IN  s.pc \in TxPcs =>
              /\ \A i \in 1..Len(s.matchingAssets) :
                    /\ s.matchingAssets[i] # Lovelace
                    /\ \E jk \in entries :
                          outs[jk[1]].amount[jk[2]].unit = s.matchingAssets[i]
              /\ Len(s.matchingAssets) <= Cardinality(entries)

C3_Witness ==
    \E c \in CycleIds :
        LET s == cyc[c]
        IN  /\ s.pc = "assets"
            /\ Len(s.matchingAssets) > 0
            /\ \E j \in 1..Len(s.utxo.outputs) :
                  /\ s.utxo.outputs[j].address = EXTRA_MONITORED_ADDRESS
                  /\ monitoredAddresses[s.ai] # EXTRA_MONITORED_ADDRESS
                  /\ \E k \in 1..Len(s.utxo.outputs[j].amount) :
                        ~Unwatched(s.utxo.outputs[j].amount[k].unit)

(* C4 -- at most one monitorListings cycle is in progress at any time.     *)
(* setInterval starts a cycle while the previous one is suspended, which   *)
(* violates it.                                                            *)

C4_OneActiveCycle == Cardinality(Active) <= 1

(* C5 -- a page answered with 429 is requested again (same page number),   *)
(* nothing collected so far is lost, and the list of an address is always  *)
(* the concatenation, in order, of pages 1..k, each appended once.         *)

C5_RetrySamePage ==
    [][\A c \in CycleIds :
          LET s == cyc[c]
              n == cyc'[c]
          IN  /\ (s.pc = "page_req" /\ n.pc = "retry_sleep") =>
                    n.allTxs = s.allTxs /\ n.pagesGot = s.pagesGot /\ n.req = s.req
              /\ (s.pc = "retry_sleep" /\ n # s) =>
                    /\ n.pc = "page_req" /\ n.id = s.id /\ n.ai = s.ai
                    /\ n.req = s.req
                    /\ n.allTxs = s.allTxs /\ n.pagesGot = s.pagesGot
              /\ n.pc # "idle" =>
                    /\ n.pagesGot = [i \in 1..Len(n.pagesGot) |-> i]
                    /\ n.allTxs = ConcatPages(scn', monitoredAddresses'[n.ai],
                                              Len(n.pagesGot))]_vars

\* page 2 was answered with 429 while the records of page 1 are held
C5_Witness ==
    \E c \in CycleIds :
        /\ cyc[c].pc = "retry_sleep"
        /\ cyc[c].req = 2
        /\ Len(cyc[c].allTxs) = TX_FETCH_LIMIT

(* C6 -- per address and cycle: requests start at page 1 and are always    *)
(* for the page after the ones collected, none is issued after a page with *)
(* fewer than TX_FETCH_LIMIT records or after page MAX_PAGES was           *)
(* collected; at most MAX_PAGES pages and MAX_PAGES * TX_FETCH_LIMIT       *)
(* records are collected.                                                  *)

C6_PaginationBound ==
    \A c \in CycleIds :
        LET s == cyc[c]
            short == Len(s.allTxs) < Len(s.pagesGot) * TX_FETCH_LIMIT
        IN  s.pc # "idle" =>
              /\ s.req \in 1..MAX_PAGES
              /\ Len(s.pagesGot) <= MAX_PAGES
              /\ Len(s.allTxs) <= MAX_PAGES * TX_FETCH_LIMIT
              /\ s.pc \in {"page_req", "retry_sleep"} => s.req = Len(s.pagesGot) + 1
              /\ short => s.pc \notin PagePcs
              /\ Len(s.pagesGot) = MAX_PAGES => s.pc \notin {"page_req", "retry_sleep"}

\* five full pages were collected and the transactions are being worked on
C6_Witness ==
    \E c \in CycleIds :
        /\ cyc[c].pc = "utxo_req"
        /\ Len(cyc[c].pagesGot) = MAX_PAGES
        /\ Len(cyc[c].allTxs) = MAX_PAGES * TX_FETCH_LIMIT

(* C7 -- when a page request fails with an error other than 429, no        *)
(* further page is requested for the address in this cycle, the records    *)
(* collected so far go through the transaction loop, and the cycle goes on *)
(* to the next address.  (A step that leaves "page_req" for neither sleep  *)
(* and appends nothing for this address is such a failure, or the success  *)
(* of a page that gave the loop nothing to do.)                            *)

C7_ErrorStopsPagination ==
    [][\A c \in CycleIds :
          LET s == cyc[c]
              n == cyc'[c]
          IN  ( /\ s.pc = "page_req"
                /\ n # s
                /\ n.pc \notin {"page_sleep", "retry_sleep"}
                /\ ~(n.id = s.id /\ n.ai = s.ai /\ n.pagesGot # s.pagesGot) )
              => /\ ~(n.id = s.id /\ n.ai = s.ai /\ n.pc \in PagePcs)
                 /\ GoesOn(s, n, 1, processedTxs')
                 /\ n.pc \in PagePcs => n.ti = 0]_vars

\* page 2 failed; the records of page 1 are in the transaction loop
C7_Witness ==
    \E c \in CycleIds :
        /\ cyc[c].pc = "utxo_req"
        /\ cyc[c].req = 2
        /\ cyc[c].pagesGot = <<1>>
        /\ Len(cyc[c].allTxs) = TX_FETCH_LIMIT

(* C8, as stated -- whenever a cycle leaves a transaction it took up, the *)
(* hash is in processedTxs, a failed UTXO request included.                *)

C8_AlwaysMarked ==
    [][\A c \in CycleIds :
          MovedOn(cyc[c], cyc'[c]) => HashOf(cyc[c]) \in processedTxs']_vars

(* C8, amended -- whenever a cycle leaves a transaction whose UTXO request *)
(* succeeded, the hash is in processedTxs, whatever came of the matching,  *)
(* the asset requests and the publishing; when the UTXO request fails the  *)
(* cycle leaves the transaction and processedTxs stays as it was.          *)

C8_MarkedUnlessUtxoFails ==
    [][\A c \in CycleIds :
          MovedOn(cyc[c], cyc'[c]) =>
              IF cyc[c].pc = "utxo_req" /\ utxoFails' # utxoFails
              THEN processedTxs' = processedTxs
              ELSE HashOf(cyc[c]) \in processedTxs']_vars

\* a cycle is past a transaction none of whose fetched records could be
\* published, with the hash recorded
C8_Witness ==
    \E c \in CycleIds :
        /\ cyc[c].pc = "utxo_req"
        /\ cyc[c].ti = 2
        /\ cyc[c].allTxs[1].tx_hash \in processedTxs
        /\ notifiedBy = {}
        /\ utxoFails = 0
        /\ monitoredAddresses = <<EXTRA_MONITORED_ADDRESS>>

(* C9 -- a publish that fails is not repeated: every record of the list    *)
(* gets one attempt, in order; after a settled attempt, failed or not, the *)
(* next record of the transaction is taken up, and after the last one the  *)
(* hash is in processedTxs and the cycle goes on with the next             *)
(* transaction.                                                            *)

C9_PublishFailureIsLocal ==
    [][\A c \in CycleIds :
          LET s == cyc[c]
              n == cyc'[c]
              settled == /\ s.pc \in {"chan_fetch", "chan_send"}
                         /\ n # s
                         /\ ~(s.pc = "chan_fetch" /\ n.pc = "chan_send" /\ n.pi = s.pi)
          IN  /\ n.pc \in {"chan_fetch", "chan_send"} =>
                    /\ n.pi \in 1..Len(n.pub)
                    /\ Len(n.sent) = n.pi - 1
                    /\ \A i \in 1..Len(n.sent) : n.sent[i].asset = n.pub[i].asset
              /\ settled =>
                    IF s.pi < Len(s.pub)
                    THEN /\ n.pc = "chan_fetch" /\ n.pi = s.pi + 1
                         /\ n.id = s.id /\ n.ai = s.ai /\ n.ti = s.ti
                         /\ n.pub = s.pub
                         /\ SubSeq(n.sent, 1, Len(s.sent)) = s.sent
                    ELSE /\ HashOf(s) \in processedTxs'
                         /\ GoesOn(s, n, s.ti + 1, processedTxs')]_vars

\* the first record's publish failed and the second record is taken up
C9_Witness ==
    \E c \in CycleIds :
        /\ cyc[c].pc = "chan_fetch"
        /\ cyc[c].pi = 2
        /\ ~cyc[c].sent[1].ok

(* C10 -- the records published for a transaction are those of the entries *)
(* of the matching list whose asset request succeeded, in order: an entry  *)
(* whose request failed gets no notification, the others still get theirs, *)
(* and the hash is in processedTxs when the cycle leaves the transaction.  *)

C10_FailedFetchDropsOneEntry ==
    [][\A c \in CycleIds :
          LET s == cyc[c]
              n == cyc'[c]
          IN  /\ n.pc \in {"chan_fetch", "chan_send"} =>
                    /\ \A i \in 1..Len(n.fetch) : n.fetch[i] = "done"
                    /\ UnitsOf(n.pub) =
                         Fetched(n.matchingAssets, n.assetDetails, Len(n.matchingAssets))
                    /\ UnitsOf(n.sent) = SubSeq(UnitsOf(n.pub), 1, n.pi - 1)
              /\ (s.pc = "assets" /\ MovedOn(s, n)) =>
                    /\ \A i \in 1..Len(s.fetch) :
                          s.fetch[i] = "done" => s.assetDetails[i].isNull
                    /\ HashOf(s) \in processedTxs'
              /\ (s.pc \in {"chan_fetch", "chan_send"} /\ MovedOn(s, n)) =>
                    /\ s.pi = Len(s.pub)
                    /\ HashOf(s) \in processedTxs']_vars

\* one asset request of the transaction failed, another succeeded and its
\* record is being published
C10_Witness ==
    \E c \in CycleIds :
        LET s == cyc[c]
        IN  /\ s.pc = "chan_send"
            /\ Len(s.matchingAssets) = 2
            /\ s.assetDetails[1].isNull
            /\ ~s.assetDetails[2].isNull
            /\ UnitsOf(s.pub) = <<s.matchingAssets[2]>>

(* C11, as stated -- once the UTXO request of a transaction has failed in  *)
(* a cycle, that cycle issues no asset request and publishes nothing for   *)
(* the hash (and so cannot record it either).  A transaction listed under  *)
(* two watched addresses violates it: the same cycle takes the hash up     *)
(* again under the later address.                                          *)

C11_AbortedForTheCycle ==
    \A c \in CycleIds :
        cyc[c].pc \in {"assets", "chan_fetch", "chan_send"} =>
            HashOf(cyc[c]) \notin cyc[c].failed

(* C11, per list entry (what does hold) -- when the UTXO request of a list *)
(* entry fails, that entry is given up: the step issues no asset request,  *)
(* publishes nothing and leaves processedTxs as it was; the cycle goes on  *)
(* with the next record of the address that processedTxs does not hold,    *)
(* else with the next address.  No cycle passes over a record whose hash   *)
(* processedTxs does not hold without a UTXO request for it.               *)

C11_AbortedForTheVisit ==
    [][\A c \in CycleIds :
          LET s == cyc[c]
              n == cyc'[c]
          IN  /\ (s.pc = "utxo_req" /\ n # s /\ utxoFails' # utxoFails) =>
                    /\ processedTxs' = processedTxs
                    /\ notifiedBy' = notifiedBy
                    /\ n.pc # "idle" => n.failed = s.failed \cup {HashOf(s)}
                    /\ GoesOn(s, n, s.ti + 1, processedTxs)
              /\ n.pc \in TxPcs =>
                    \A i \in 1..(n.ti - 1) :
                        \/ n.allTxs[i].tx_hash \in processedTxs'
                        \/ n.allTxs[i].tx_hash \in n.failed]_vars

\* the UTXO request of the first record failed: the hash is not recorded
\* and the cycle is at the UTXO request of the second record
C11_Witness ==
    \E c \in CycleIds :
        /\ cyc[c].pc = "utxo_req"
        /\ cyc[c].ti = 2
        /\ cyc[c].allTxs[1].tx_hash \in cyc[c].failed
        /\ cyc[c].allTxs[1].tx_hash \notin processedTxs

(* C12 -- the matching list of a transaction under address A is the list   *)
(* of the units of the pairs (output to A, amount entry of a watched       *)
(* policy), in output order, a unit once per pair; when every asset        *)
(* request and every publish succeeds there is exactly one notification    *)
(* per entry, in that order, and a transaction without such a pair gets no *)
(* asset request and no notification.                                      *)

C12_OneNotificationPerEntry ==
    [][\A c \in CycleIds :
          LET s == cyc[c]
              n == cyc'[c]
              want(x) == QualifyingUnits(x.utxo, monitoredAddresses[x.ai])
              allOk(x) == /\ \A i \in 1..Len(x.assetDetails) : ~x.assetDetails[i].isNull
                          /\ \A i \in 1..Len(x.sent) : x.sent[i].ok
          IN  /\ n.pc \in {"assets", "chan_fetch", "chan_send"} =>
                    /\ n.matchingAssets = want(n)
                    /\ want(n) # <<>>
              /\ (n.pc \in {"chan_fetch", "chan_send"} /\ allOk(n)) =>
                    /\ UnitsOf(n.pub) = want(n)
                    /\ UnitsOf(n.sent) = SubSeq(want(n), 1, n.pi - 1)
              /\ (s.pc = "chan_send" /\ allOk(s) /\ MovedOn(s, n)) =>
                    s.pi = Len(want(s))
              /\ (s.pc = "time_req" /\ MovedOn(s, n)) => want(s) = <<>>
              /\ (s.pc = "utxo_req" /\ MovedOn(s, n) /\ utxoFails' = utxoFails) =>
                    QualifyingUnits(UtxoData(HashOf(s)), monitoredAddresses[s.ai]) = <<>>]_vars

\* one unit sits in two outputs to the scanned address: its first
\* notification went out and the second one is being sent
C12_Witness ==
    \E c \in CycleIds :
        LET s == cyc[c]
        IN  /\ s.pc = "chan_send"
            /\ s.pi = 2
            /\ Len(s.sent) = 1 /\ s.sent[1].ok
            /\ s.pub[2].asset = s.sent[1].asset
            /\ Cardinality(QualifyingPairs(s.utxo, monitoredAddresses[s.ai])) = 2

---------------------------------------------------------------------------
(* Vocabulary of the image properties.                                     *)

\* a probe answered with a status in 200..399 and an image content type
Verifies(o) ==
    ~o.error /\ o.status \in 200..399 /\ ContainsCI(o.contentType, IMAGE_SLASH)

\* the metadata is absent, or a map without image, image_url, thumbnail,
\* media and without a files entry of an image media type
LacksImageFields(m) ==
    \/ m.t = "undefined"
    \/ /\ m.t = "object"
       /\ m.image = Undefined /\ m.image_url = Undefined
       /\ m.thumbnail = Undefined /\ m.media = Undefined
       /\ \A k \in 1..Len(m.files) : ~IsImageFile(m.files[k])

(* C13 -- the image URL of a published notification is the placeholder or  *)
(* a URL whose probe answered with a status in 200..399 and an image       *)
(* content type; no URL whose probe failed is used.  Stated for the two    *)
(* variants it cites; the preview variant publishes the URL it built       *)
(* without any probe.                                                      *)

C13_VerifiedOrPlaceholder ==
    (img.variant \in {"poolpm", "preview"} /\ img.stage = "sent") =>
        /\ \/ img.imageUrl = StringOf(PLACEHOLDER)
           \/ \E k \in 1..Len(img.probes) :
                 img.probes[k].url = img.imageUrl.s /\ Verifies(img.probes[k].outcome)
        /\ \A k \in 1..Len(img.probes) :
              ~Verifies(img.probes[k].outcome) => img.probes[k].url # img.imageUrl.s

(* C14 -- resolvePoolpmImageByFingerprint probes /files/0, /files/1, ...   *)
(* in increasing order, at most maxTries of them, none after one that      *)
(* verified; an exception of a probe counts as a failed verification; the  *)
(* notification carries the URL that verified, or the placeholder once all *)
(* maxTries probes have failed, and no exception leaves the resolver.      *)

C14_ProbesInOrder ==
    img.variant = "poolpm" =>
        LET n == Len(img.probes)
        IN  /\ img.stage \in {"start", "probe", "embed", "sent"}
            /\ n <= 4
            /\ \A k \in 1..n :
                  /\ img.probes[k].index = k - 1
                  /\ img.probes[k].url = PoolpmFileUrl(img.data.fingerprint.s, k - 1)
                  /\ k < n => ~Verifies(img.probes[k].outcome)
            /\ img.stage = "probe" =>
                  /\ img.i = n /\ n < img.maxTries /\ img.maxTries = 4
                  /\ n > 0 => ~Verifies(img.probes[n].outcome)
            /\ (img.stage \in {"embed", "sent"} /\ Truthy(img.data.fingerprint)) =>
                  IF n > 0 /\ Verifies(img.probes[n].outcome)
                  THEN img.imageUrl = StringOf(img.probes[n].url)
                  ELSE n = 4 /\ img.imageUrl = StringOf(PLACEHOLDER)

\* four probes failed, one of them with an exception, and the notification
\* went out with the placeholder
C14_Witness ==
    /\ img.variant = "poolpm" /\ img.stage = "sent"
    /\ Len(img.probes) = 4
    /\ \E k \in 1..4 : img.probes[k].outcome.error
    /\ \E k \in 1..4 : img.probes[k].outcome.status = 200
    /\ img.imageUrl = StringOf(PLACEHOLDER)

(* C15 -- for metadata without any recognized image field (absent and      *)
(* empty maps included) the image of the notification is the fixed         *)
(* no-image placeholder of the variant: extractRawImage and                *)
(* buildPoolPreviewUrl give null and line 690 its placeholder; ipfsToHttp  *)
(* returns its own.                                                        *)

C16_ThreeFormsOneResult ==
    (img.mode = "url" /\ img.stage = "done") =>
        /\ \A f \in {IPFS_IPFS, IPFS, SLASH_IPFS} : \A c \in Cids : \A p \in Paths :
              img.raw = StringOf(f \o c \o p) => img.out = StringOf(IPFS \o c \o p)
        /\ (img.raw.t = "string"
            /\ \/ StartsWith(img.raw.s, HTTP) \/ StartsWith(img.raw.s, HTTPS)
               \/ StartsWith(img.raw.s, DATA_IMAGE))
           => img.out = img.raw

\* the gateway form of a reference with a path was normalized
C16_Witness ==
    /\ img.mode = "url" /\ img.stage = "done"
    /\ \E c \in Cids : \E p \in Paths :
          /\ Len(p) > 1
          /\ img.raw = StringOf(IPFS_IPFS \o c \o p)
          /\ img.out = StringOf(IPFS \o c \o p)

(* C17 -- with every call settling and no page answered with 429 for ever, *)
(* every cycle that has started completes, whatever calls fail; it ends    *)
(* only behind the last watched address, having taken the addresses one by *)
(* one; a 429 brings the cycle back to the very state of the request, so   *)
(* nothing bounds the retries.                                             *)

C17_CycleCompletes ==
    /\ \A c \in CycleIds : (cyc[c].pc # "idle") ~> (cyc[c].pc = "idle")
    /\ [][\A c \in CycleIds :
            LET s == cyc[c]
                n == cyc'[c]
            IN  /\ (s.pc # "idle" /\ n.pc = "idle") => s.ai = Len(monitoredAddresses)
                /\ (n.pc # "idle" /\ n.ai # s.ai) => n.ai = s.ai + 1
                /\ (s.pc = "retry_sleep" /\ n # s) => n = [s EXCEPT !.pc = "page_req"]
                /\ (s.pc = "page_req" /\ n.pc = "retry_sleep") =>
                      n = [s EXCEPT !.pc = "retry_sleep"]]_vars

(* C17, without the proviso -- a cycle that has started completes even if  *)
(* pages may be answered with 429 for ever.  The retry loop violates it.   *)

C17_CompletesRegardless ==
    \A c \in CycleIds : (cyc[c].pc # "idle") ~> (cyc[c].pc = "idle")

\* a cycle has finished after a failed page request, a failed UTXO request
\* and a failed publish
C17_Witness ==
    /\ ticks > 0
    /\ \A c \in CycleIds : cyc[c].pc = "idle"
    /\ utxoFails > 0
    /\ processedTxs # {}
    /\ notifiedBy = {}

---------------------------------------------------------------------------
(* C18 -- setInterval is called once: never more than one timer exists,    *)
(* and it is started by the step that ends the attempt at the readiness    *)
(* message (the channel fetch failing, or the send settling), after the    *)
(* loop over STAKE_KEYS is over and monitoredAddresses has its final value; *)
(* no cycle starts, and the timer does not fire, before that.              *)

C18_TimerOnceAfterStartup ==
    /\ [](/\ timers <= 1
          /\ (timers = 1) <=> (boot = "running")
          /\ (ticks > 0 \/ Active # {}) => timers = 1
          /\ boot \in {"announce_fetch", "announce_send", "running"} =>
                /\ stakeIdx = Len(STAKE_KEYS) + 1
                /\ Includes(monitoredAddresses, EXTRA_MONITORED_ADDRESS))
    /\ [][/\ timers' # timers =>
                /\ timers' = timers + 1
                /\ boot \in {"announce_fetch", "announce_send"}
                /\ monitoredAddresses' = monitoredAddresses
          /\ boot = "announce_fetch" => boot' \in {"announce_fetch", "announce_send", "running"}
          /\ boot = "announce_send" => boot' \in {"announce_send", "running"}
          /\ boot = "running" => boot' = "running"
          /\ (ticks' # ticks \/ Active' # Active) => timers = 1]_vars

\* a second cycle runs beside the first, on the one timer, after a stake-key
\* lookup that failed
C18_Witness ==
    /\ timers = 1
    /\ ticks = 2
    /\ Cardinality(Active) = 2
    /\ lookedUp = {}

---------------------------------------------------------------------------
(* C19 -- once resolveAddressesFromStakeKeys has returned, no address is   *)
(* twice in monitoredAddresses, the extra address is in it whether the     *)
(* stake-key lookups failed or not, every address a successful lookup      *)
(* returned is in it, and nothing else is; from then on no step, of a      *)
(* cycle or otherwise, changes the list.                                   *)

ResolutionOver == boot \in {"announce_fetch", "announce_send", "running"}

C19_AddressesFixedAfterResolve ==
    /\ [](ResolutionOver =>
            /\ \A i, j \in 1..Len(monitoredAddresses) :
                  monitoredAddresses[i] = monitoredAddresses[j] => i = j
            /\ Includes(monitoredAddresses, EXTRA_MONITORED_ADDRESS)
            /\ \A k \in lookedUp :
                  \A i \in 1..Len(StakeAddresses(STAKE_KEYS[k])) :
                    Includes(monitoredAddresses, StakeAddresses(STAKE_KEYS[k])[i].address)
            /\ \A i \in 1..Len(monitoredAddresses) :
                  \/ monitoredAddresses[i] = EXTRA_MONITORED_ADDRESS
                  \/ \E k \in lookedUp :
                        Includes(StakeAddresses(STAKE_KEYS[k]),
                                 [address |-> monitoredAddresses[i]]))
    /\ [][/\ ResolutionOver => monitoredAddresses' = monitoredAddresses
          /\ cyc' # cyc => monitoredAddresses' = monitoredAddresses]_vars

\* a cycle has gone through the list of a successful lookup, whose answer
\* named one address twice
C19_Witness ==
    /\ lookedUp = {1}
    /\ Len(StakeAddresses(STAKE_KEYS[1])) = 2
    /\ monitoredAddresses = <<AddrA, EXTRA_MONITORED_ADDRESS>>
    /\ ticks > 0
    /\ Active = {}
    /\ processedTxs # {}

---------------------------------------------------------------------------
(* C20 -- the asset requests of a transaction settle in any order; while   *)
(* one of them is pending nothing is published for the transaction; the    *)
(* records are published one attempt at a time, in the order of the        *)
(* matching list, whatever the order the requests settled in; and a cycle  *)
(* adds the hash to processedTxs only with the step that ends the attempt  *)
(* for the last record (or that leaves it with no record to publish).      *)

C20_JoinThenPublishInOrder ==
    /\ [](\A c \in CycleIds :
            LET s == cyc[c]
                done == {i \in 1..Len(s.fetch) : s.fetch[i] = "done"}
            IN  /\ s.pc = "assets" =>
                      /\ s.sent = <<>>
                      /\ done # 1..Len(s.fetch)
                      /\ Len(s.settled) = Cardinality(done)
                      /\ {s.settled[k] : k \in 1..Len(s.settled)} = done
                /\ s.pc \in {"chan_fetch", "chan_send"} =>
                      /\ done = 1..Len(s.matchingAssets)
                      /\ Len(s.settled) = Len(s.matchingAssets)
                      /\ UnitsOf(s.pub) =
                           Fetched(s.matchingAssets, s.assetDetails, Len(s.matchingAssets))
                      /\ Len(s.sent) = s.pi - 1
                      /\ UnitsOf(s.sent) = SubSeq(UnitsOf(s.pub), 1, s.pi - 1))
    /\ [][\A c \in CycleIds :
            LET s == cyc[c]
                n == cyc'[c]
                sameTx == n.pc \in TxPcs /\ n.id = s.id /\ n.ai = s.ai /\ n.ti = s.ti
                adds == /\ n # s
                        /\ s.pc \in TxPcs
                        /\ HashOf(s) \in processedTxs' \ processedTxs
            IN  /\ (s.pc \in TxPcs /\ sameTx /\ n.sent # s.sent) =>
                      /\ s.pc \in {"chan_fetch", "chan_send"}
                      /\ Len(n.sent) = Len(s.sent) + 1
                      /\ SubSeq(n.sent, 1, Len(s.sent)) = s.sent
                /\ (adds /\ s.pc \in {"chan_fetch", "chan_send"}) =>
                      /\ s.pi = Len(s.pub)
                      /\ Len(s.sent) = Len(s.pub) - 1
                /\ (adds /\ s.pc = "assets") =>
                      /\ Cardinality({i \in 1..Len(s.fetch) : s.fetch[i] # "done"}) = 1
                      /\ \A i \in 1..Len(s.fetch) :
                            s.fetch[i] = "done" => s.assetDetails[i].isNull
                /\ (adds /\ s.pc \in {"utxo_req", "time_req"}) =>
                      Len(MatchingAssets(UtxoData(HashOf(s)), monitoredAddresses[s.ai])) = 0]_vars

\* the second asset request settled before the first, the first record has
\* been published and the second is being sent; the hash is not recorded yet
C20_Witness ==
    \E c \in CycleIds :
        LET s == cyc[c]
        IN  /\ s.pc = "chan_send"
            /\ s.settled = <<2, 1>>
            /\ s.pi = 2
            /\ s.sent = <<[asset |-> s.matchingAssets[1], ok |-> TRUE]>>
            /\ s.pub[2].asset = s.matchingAssets[2]
            /\ HashOf(s) \notin processedTxs

---------------------------------------------------------------------------
(* C21 -- no transaction is kept from the matching because of its block    *)
(* time or epoch: the loop passes over a transaction only when             *)
(* processedTxs has its hash or its UTXO request failed.  The variant of   *)
(* lines 112-130 violates it: there a record before epoch 573 is passed    *)
(* over, at the head of the loop or after the UTXO answer.                 *)

C21_NoTimeFilter ==
    txl.pc = "skipped" => txl.why \in {"processed", "utxo"}

(* C21, in the variants where the filter is a comment (what does hold) --  *)
(* the same, and a transaction whose UTXO request succeeded reaches the    *)
(* matching whatever the block times, an absent one included.              *)

C21_NoTimeFilterWhereCommentedOut ==
    txl.variant = "unfiltered" =>
        /\ txl.pc = "skipped" => txl.why \in {"processed", "utxo"}
        /\ txl.pc = "skipped" /\ txl.why = "processed" => txl.has
        /\ txl.pc \in {"utxo_req", "time_req", "matching"} => ~txl.has

---------------------------------------------------------------------------
(* C22, as stated -- getTransactionBlockTime is called only for a          *)
(* transaction whose record in the list has no block time.  The code       *)
(* tests utxoRes.data.block_time instead, so a record with a block time    *)
(* whose UTXO answer has none violates it.                                 *)

C22_LookupOnlyWithoutSummaryTime ==
    \A c \in CycleIds :
        cyc[c].pc = "time_req" => cyc[c].allTxs[cyc[c].ti].block_time = 0

(* C22, by the UTXO answer (what does hold) -- the lookup is made, once,   *)
(* exactly when the UTXO answer has no block time, whatever the list's     *)
(* record says; its result, or an absent block time when it fails, becomes *)
(* blockTime, and the transaction goes on to the matching either way.      *)

C22_LookupByUtxoAnswer ==
    /\ txl.lookups <= 1
    /\ txl.lookups = 1 => txl.utxoTime = 0
    /\ txl.pc = "time_req" => txl.lookups = 1
    /\ (txl.pc = "matching" /\ txl.utxoTime # 0) =>
          txl.lookups = 0 /\ txl.blockTime = txl.utxoTime
    /\ (txl.pc = "matching" /\ txl.utxoTime = 0) =>
          txl.lookups = 1 /\ txl.blockTime \in {txl.lookupTime, 0}
    /\ (txl.variant = "unfiltered" /\ txl.lookups = 1) =>
          txl.pc \in {"time_req", "matching"}

---------------------------------------------------------------------------
(* C23 -- processedTxs holds hashes, with no address: a cycle takes up a   *)
(* record (issues its UTXO request) only if processedTxs does not hold the *)
(* hash, under whichever address the record is listed; a hash is never     *)
(* removed; and once processedTxs holds a hash that no cycle is working on *)
(* no cycle works on it again and nothing more is published for it, so     *)
(* what the transaction pays to another watched address goes unnotified.   *)

WorkedOn(h) == \E c \in CycleIds : cyc[c].pc \in TxPcs /\ HashOf(cyc[c]) = h

C23_KeyedByHashAlone ==
    [][/\ processedTxs \subseteq processedTxs'
       /\ \A c \in CycleIds :
            LET s == cyc[c]
                n == cyc'[c]
                takesUp == /\ n # s
                           /\ n.pc = "utxo_req"
            IN  takesUp =>
                  /\ HashOf(n) \notin processedTxs'
                  /\ \A i \in 1..(n.ti - 1) :
                        (n.ai # s.ai \/ s.pc \notin TxPcs \/ i > s.ti) =>
                            n.allTxs[i].tx_hash \in processedTxs'
       /\ \A h \in processedTxs :
            ~WorkedOn(h) =>
                /\ ~WorkedOn(h)'
                /\ {p \in notifiedBy' : p[1] = h} = {p \in notifiedBy : p[1] = h}]_vars

\* the one cycle there has been published for t1 under the first address
\* and, under the extra address, has passed over t1 for the record after
\* it, although t1 pays a watched unit to the extra address as well
C23_Witness ==
    \E c \in CycleIds :
        LET s == cyc[c]
        IN  /\ ticks = 1 /\ utxoFails = 0
            /\ monitoredAddresses = <<AddrA, EXTRA_MONITORED_ADDRESS>>
            /\ s.pc = "utxo_req" /\ s.ai = 2 /\ s.ti = 2
            /\ s.allTxs[1].tx_hash = "t1"
            /\ "t1" \in processedTxs
            /\ notifiedBy = {<<"t1", 1>>}
            /\ Len(MatchingAssets(UtxoData("t1"), EXTRA_MONITORED_ADDRESS)) > 0

---------------------------------------------------------------------------
(* C24, as stated -- normalizeToCanonicalUrl applied to its own result     *)
(* gives that result again, for every reference.  A reference whose first  *)
(* segment is the literal 'ipfs', as in ipfs://ipfs/ipfs/CID, violates it: *)
(* the result ipfs://ipfs/CID is itself of the gateway form and the second *)
(* application makes ipfs://CID of it.                                     *)

C24_Idempotent ==
    (img.mode = "url" /\ img.stage = "twice") => img.again = img.out

(* C24, off the literal (what does hold) -- the second application changes *)
(* the result exactly when the result is of the form ipfs://ipfs/<segment>, *)
(* which happens only when 'ipfs' (in any case) was taken for the CID; an  *)
(* http(s), data, ar:// or unrecognized reference is always stable.        *)

C24_IdempotentOffTheLiteral ==
    (img.mode = "url" /\ img.stage = "twice") =>
        /\ (img.again # img.out) <=>
              (img.out.t = "string" /\ IpfsMatch(img.out.s, IPFS_IPFS))
        /\ (img.again # img.out) =>
              \E f \in {IPFS_IPFS, IPFS, SLASH_IPFS} :
                  /\ StartsWithCI(img.raw.s, f)
                  /\ StartsWithCI(Drop(img.raw.s, Len(f)), <<"i", "p", "f", "s", "/">>)

====
